---- MODULE Spec2Model ----
(***************************************************************************)
(* Meter classifier and rhyme matcher of bskydb (src/couplets.py).         *)
(*                                                                         *)
(* Text is a sequence of one-character strings, a word is a text without   *)
(* whitespace, a phoneme is the text of its ARPAbet symbol ("AH0", "T"),   *)
(* a pronunciation is a sequence of phonemes.  Python's True, False and    *)
(* None are the strings "True", "False" and "None".                        *)
(***************************************************************************)
EXTENDS Integers, Sequences, FiniteSets, TLC

VARIABLES
    word1, word2, rhyme_ret,          \* do_words_rhyme: arguments, return value
    pattern, template_ret,            \* is_iambic_pentameter: argument, return value
    num, num_ret,                     \* num2words: argument, return value
    raw_text, pc, words,              \* check_iambic_pentameter: argument, position, locals
    patterns_checked, found_iambic, check_ret,
    corpus, module_dict, stress_table, \* start-up: cmudict's content, pronouncing_dict, word_stress_patterns
    boot_pc, lookup,                  \* start-up: position, the last lexicon entry read after it
    ana_pattern, ana_ret,             \* is_anapestic_trimeter: argument, return value
    db, now, reposts,                 \* iambic_messages rows, NOW(), reposts made at the service per row
    fpc, runs, valid_messages,        \* couplet finder: position, runs so far, locals
    couplets, chosen, rstep, rlog,    \* couplet finder: locals, the post being reposted, the calls made
    mpc, delays, received,            \* stream consumer: position, the waits made, messages received
    process_errors, stored, last_event \* stream consumer: exceptions logged, rows inserted, last step

vars == <<word1, word2, rhyme_ret, pattern, template_ret, num, num_ret,
          raw_text, pc, words, patterns_checked, found_iambic, check_ret,
          corpus, module_dict, stress_table, boot_pc, lookup,
          ana_pattern, ana_ret,
          db, now, reposts, fpc, runs, valid_messages, couplets, chosen, rstep, rlog,
          mpc, delays, received, process_errors, stored, last_event>>

rhymeVars == <<word1, word2, rhyme_ret>>
templateVars == <<pattern, template_ret>>
numVars == <<num, num_ret>>
checkVars == <<raw_text, pc, words, patterns_checked, found_iambic, check_ret>>
bootVars == <<corpus, module_dict, stress_table, boot_pc, lookup>>
anapestVars == <<ana_pattern, ana_ret>>
finderVars == <<db, now, reposts, fpc, runs, valid_messages, couplets, chosen, rstep, rlog>>
monitorVars == <<mpc, delays, received, process_errors, stored, last_event>>
extVars == <<bootVars, anapestVars, finderVars, monitorVars>>

(***************************************************************************)
(* Bounds of the model.                                                    *)
(***************************************************************************)
MaxWordLen == 1       \* letters in an argument of do_words_rhyme
MaxPatLen == 11       \* entries of a stress pattern given to the template
MaxDigits == 7        \* digits of a digit run given to num2words
MaxWords == 4         \* tokens of a line given to the classifier
MaxChars == 4         \* characters of a free-form text given to the classifier
MaxPosts == 3         \* rows of iambic_messages
MaxRuns == 2          \* runs of the couplet finder
MaxFailures == 3      \* transport failures of the stream consumer
MaxMessages == 3      \* messages the stream consumer receives

NotCalled == "NotCalled"

\* the parts of the program a specification leaves alone
IdleBoot ==
    /\ corpus = <<>>
    /\ module_dict = <<>>
    /\ stress_table = <<>>
    /\ boot_pc = "idle"
    /\ lookup = NotCalled
IdleAnapest == ana_pattern = <<>> /\ ana_ret = NotCalled
IdleFinder ==
    /\ db = <<>>
    /\ now = 0
    /\ reposts = <<>>
    /\ fpc = "idle"
    /\ runs = 0
    /\ valid_messages = <<>>
    /\ couplets = <<>>
    /\ chosen = "None"
    /\ rstep = 0
    /\ rlog = <<>>
IdleMonitor ==
    /\ mpc = "idle"
    /\ delays = <<>>
    /\ received = 0
    /\ process_errors = 0
    /\ stored = 0
    /\ last_event = "none"
IdleExt == IdleBoot /\ IdleAnapest /\ IdleFinder /\ IdleMonitor

(***************************************************************************)
(* Characters and str methods.                                             *)
(***************************************************************************)
Digits == {"0", "1", "2", "3", "4", "5", "6", "7", "8", "9"}

LowerLetters == {"a", "b", "c", "d", "e", "f", "g", "h", "i", "j", "k", "l", "m",
                 "n", "o", "p", "q", "r", "s", "t", "u", "v", "w", "x", "y", "z"}

UpperToLower == [c \in {"A", "B", "C", "D", "E", "F", "G", "H", "I", "J", "K", "L", "M",
                        "N", "O", "P", "Q", "R", "S", "T", "U", "V", "W", "X", "Y", "Z"} |->
    CASE c = "A" -> "a" [] c = "B" -> "b" [] c = "C" -> "c" [] c = "D" -> "d"
      [] c = "E" -> "e" [] c = "F" -> "f" [] c = "G" -> "g" [] c = "H" -> "h"
      [] c = "I" -> "i" [] c = "J" -> "j" [] c = "K" -> "k" [] c = "L" -> "l"
      [] c = "M" -> "m" [] c = "N" -> "n" [] c = "O" -> "o" [] c = "P" -> "p"
      [] c = "Q" -> "q" [] c = "R" -> "r" [] c = "S" -> "s" [] c = "T" -> "t"
      [] c = "U" -> "u" [] c = "V" -> "v" [] c = "W" -> "w" [] c = "X" -> "x"
      [] c = "Y" -> "y" [] c = "Z" -> "z"]

UpperLetters == DOMAIN UpperToLower

Whitespace == {" ", "\n", "\t"}

\* str.lower()
Lower(text) == [i \in 1..Len(text) |-> IF text[i] \in UpperLetters THEN UpperToLower[text[i]] ELSE text[i]]

\* str.isdigit() of one character
IsDigit(c) == c \in Digits

(***************************************************************************)
(* The pronunciation lexicon.  cmudict.dict() is external data: a small    *)
(* stand-in of the same shape, with one-letter keys (and the two keys the  *)
(* program overrides) and phonemes written out character by character.     *)
(***************************************************************************)
AH0 == <<"A", "H", "0">>
EH1 == <<"E", "H", "1">>
EY1 == <<"E", "Y", "1">>
IH2 == <<"I", "H", "2">>
ER0 == <<"E", "R", "0">>
ER1 == <<"E", "R", "1">>
IH0 == <<"I", "H", "0">>
PhT == <<"T">>
PhK == <<"K">>
PhF == <<"F">>
PhP == <<"P">>
PhHH == <<"H", "H">>
PhM == <<"M">>
PhW == <<"W">>
PhN == <<"N">>
AH1 == <<"A", "H", "1">>

Wa == <<"a">>
Wd == <<"d">>
We == <<"e">>
Wf == <<"f">>
Wg == <<"g">>
Wh == <<"h">>
Wk == <<"k">>
Wx == <<"x">>
Wy == <<"y">>
Wz == <<"z">>
Wq == <<"q">>
Wperfect == <<"p", "e", "r", "f", "e", "c", "t">>
Wone == <<"o", "n", "e">>

\* cmudict.dict(): word -> list of pronunciations
CmuDict ==
    (Wa :> << <<AH0>>, <<EY1>> >>)
 @@ (Wperfect :> << <<PhP, ER0, PhF, EH1, PhK, PhT>>, <<PhP, ER1, PhF, IH2, PhK, PhT>> >>)
 @@ (Wd :> << <<AH0, PhT, EH1, PhT, AH0, PhT, EH1, PhT, AH0>> >>)
 @@ (We :> << <<EH1, PhT, AH0, PhT, EH1, PhT, AH0, PhT, EH1, PhT>> >>)
 @@ (Wf :> << <<AH0, PhF, EH1, PhT>> >>)
 @@ (Wg :> << <<PhHH, PhM>> >>)
 @@ (Wh :> << <<PhHH, PhM>> >>)
 @@ (Wk :> << <<IH2, PhK, EH1, PhK, AH0, PhK, EH1, PhK, AH0>> >>)
 @@ (Wx :> << <<AH0, PhT, EH1, PhT>>, <<AH0, PhT, EH1, PhT, AH0>> >>)
 @@ (Wy :> << <<AH0, PhK, EH1, PhT>>, <<EH1, PhK, AH0, PhK, EH1, PhT>> >>)
 @@ (Wz :> << <<AH0, PhK, EY1>>, <<AH0, PhK, EH1, PhK, AH0, PhK, EY1>>,
              <<AH0, PhK, EH1, PhK, AH0, PhK, EH1, PhK, AH0, PhK, EY1>> >>)
 @@ (Wone :> << <<PhW, AH1, PhN>> >>)

\* couplets.py:22-25, the lexicon the stress patterns are computed from
PronouncingDictAtImport ==
    [w \in DOMAIN CmuDict |->
        IF w = Wa THEN << <<AH0>> >>
        ELSE IF w = Wperfect THEN << <<PhP, ER1, PhF, IH0, PhK, PhT>> >>
        ELSE CmuDict[w]]

\* couplets.py:112, the lexicon the rhyme functions read
pronouncing_dict == CmuDict

\* int(phoneme[-1]) of a phoneme whose last character is a digit
DigitValue(c) ==
    CASE c = "0" -> 0 [] c = "1" -> 1 [] c = "2" -> 2 [] c = "3" -> 3 [] c = "4" -> 4
      [] c = "5" -> 5 [] c = "6" -> 6 [] c = "7" -> 7 [] c = "8" -> 8 [] c = "9" -> 9

RECURSIVE StressesOf(_)
\* [int(phoneme[-1]) for phoneme in pron if phoneme[-1].isdigit()]
StressesOf(pron) ==
    IF pron = <<>> THEN <<>>
    ELSE LET phoneme == Head(pron)
         IN  IF IsDigit(phoneme[Len(phoneme)])
             THEN <<DigitValue(phoneme[Len(phoneme)])>> \o StressesOf(Tail(pron))
             ELSE StressesOf(Tail(pron))

\* couplets.py:28-33
word_stress_patterns ==
    [w \in DOMAIN PronouncingDictAtImport |->
        [v \in 1..Len(PronouncingDictAtImport[w]) |-> StressesOf(PronouncingDictAtImport[w][v])]]

(***************************************************************************)
(* Rhyme keys (couplets.py:163-196).                                       *)
(***************************************************************************)
\* any(char.isdigit() for char in phoneme)
HasDigit(phoneme) == \E j \in 1..Len(phoneme) : IsDigit(phoneme[j])

\* the body of the loop over one pronunciation: i counts from the end, from 0
PhonemeEnding(pronunciation) ==
    LET n == Len(pronunciation)
        hits == {i \in 0..(n - 1) : HasDigit(pronunciation[n - i])}
    IN  IF hits = {} THEN pronunciation
        ELSE LET i == CHOOSE h \in hits : \A g \in hits : h <= g
             IN  SubSeq(pronunciation, n - i, n)

RECURSIVE Dedupe(_)
Dedupe(endings) ==
    IF endings = <<>> THEN <<>>
    ELSE LET rest == Dedupe(Tail(endings))
         IN  IF \E j \in 1..Len(rest) : rest[j] = Head(endings) THEN rest
             ELSE <<Head(endings)>> \o rest

\* get_all_phoneme_endings collecting the distinct endings only
GetDistinctPhonemeEndings(word) ==
    IF Lower(word) \notin DOMAIN pronouncing_dict THEN <<>>
    ELSE Dedupe([v \in 1..Len(pronouncing_dict[Lower(word)]) |->
                    PhonemeEnding(pronouncing_dict[Lower(word)][v])])

get_all_phoneme_endings(word) ==
    IF Lower(word) \notin DOMAIN pronouncing_dict THEN <<>>
    ELSE [v \in 1..Len(pronouncing_dict[Lower(word)]) |->
             PhonemeEnding(pronouncing_dict[Lower(word)][v])]

\* the ambiguity test of do_words_rhyme with the second word forgotten
AmbiguousFirstOnly(phoneme_endings1, phoneme_endings2) ==
    Len(phoneme_endings1) > 1

\* couplets.py:191
AmbiguousEndings(phoneme_endings1, phoneme_endings2) ==
    Len(phoneme_endings1) > 1 \/ Len(phoneme_endings2) > 1

do_words_rhyme(w1, w2) ==
    IF Lower(w1) = Lower(w2) THEN "False"
    ELSE LET phoneme_endings1 == get_all_phoneme_endings(w1)
             phoneme_endings2 == get_all_phoneme_endings(w2)
         IN  IF phoneme_endings1 = <<>> \/ phoneme_endings2 = <<>> THEN "False"
             ELSE IF AmbiguousEndings(phoneme_endings1, phoneme_endings2) THEN "False"
             ELSE IF phoneme_endings1[1] = phoneme_endings2[1] THEN "True"
             ELSE "None"

\* Python's truth value of a return value
Truthy(v) == v = "True"

(***************************************************************************)
(* Sets of inputs.                                                         *)
(***************************************************************************)
\* every sequence over S of length at most n
SeqsUpTo(S, n) == UNION {[1..k -> S] : k \in 0..n}

RhymeLetters == {"a", "d", "e", "f", "g", "h", "x", "y", "q", "E", "F", "Y"}
RhymeWords == SeqsUpTo(RhymeLetters, MaxWordLen)

(***************************************************************************)
(* do_words_rhyme as an operation.                                         *)
(***************************************************************************)
InitRhyme ==
    /\ word1 \in RhymeWords
    /\ word2 \in RhymeWords
    /\ rhyme_ret = NotCalled

CallDoWordsRhyme ==
    /\ rhyme_ret = NotCalled
    /\ rhyme_ret' = do_words_rhyme(word1, word2)
    /\ UNCHANGED <<word1, word2>>

IdleTemplate == pattern = <<>> /\ template_ret = NotCalled
IdleNum == num = <<>> /\ num_ret = NotCalled
IdleCheck ==
    /\ raw_text = <<>>
    /\ pc = "idle"
    /\ words = <<>>
    /\ patterns_checked = 0
    /\ found_iambic = FALSE
    /\ check_ret = NotCalled
IdleRhyme == word1 = <<>> /\ word2 = <<>> /\ rhyme_ret = NotCalled

InitR == InitRhyme /\ IdleTemplate /\ IdleNum /\ IdleCheck /\ IdleExt
NextR == CallDoWordsRhyme /\ UNCHANGED <<templateVars, numVars, checkVars, extVars>>
SpecRhyme == InitR /\ [][NextR]_vars

(***************************************************************************)
(* Rhyme keys as the specification words them.                             *)
(***************************************************************************)
\* a phoneme carries a stress tag when its symbol ends in a decimal digit
StressTagged(phoneme) == phoneme[Len(phoneme)] \in Digits

\* s is the rhyme key of a variant: the tail that starts at the stress-tagged
\* phoneme nearest the end, or the whole variant when nothing is tagged
IsKeyOf(s, variant) ==
    \E k \in 1..Len(variant) :
        /\ s = SubSeq(variant, k, Len(variant))
        /\ \A j \in (k + 1)..Len(variant) : ~StressTagged(variant[j])
        /\ \/ StressTagged(variant[k])
           \/ k = 1 /\ ~StressTagged(variant[1])

InLexicon(w) == Lower(w) \in DOMAIN CmuDict
Variants(w) == CmuDict[Lower(w)]
Decidable(w) == InLexicon(w) /\ Len(Variants(w)) = 1
Tails(variant) == {SubSeq(variant, k, Len(variant)) : k \in 1..Len(variant)}
SameKey(a, b) == \E s \in Tails(Variants(a)[1]) :
                    IsKeyOf(s, Variants(a)[1]) /\ IsKeyOf(s, Variants(b)[1])

RhymeSymmetric ==
    rhyme_ret # NotCalled => rhyme_ret = do_words_rhyme(word2, word1)

\* a word of one variant met a word of several variants whose first variant
\* has the same key, and a word of the lexicon met a word outside it
RhymeAsymmetricArgsReached ==
    /\ rhyme_ret = "False"
    /\ Decidable(word1)
    /\ InLexicon(word2) /\ Len(Variants(word2)) > 1
    /\ PhonemeEnding(Variants(word2)[1]) = PhonemeEnding(Variants(word1)[1])

(***************************************************************************)
(* The meter template (couplets.py:60-64).                                 *)
(***************************************************************************)
PyBool(b) == IF b THEN "True" ELSE "False"

\* the template of test2.py:61-66, which takes a secondary stress for "unstressed"
IsIambicPentameterPermissive(p) ==
    /\ Len(p) = 10
    /\ \A i \in 0..(Len(p) - 1) :
          IF i % 2 = 0 THEN (p[i + 1] = 0 \/ p[i + 1] = 2) ELSE p[i + 1] = 1

is_iambic_pentameter(p) ==
    /\ Len(p) = 10
    /\ \A i \in 0..(Len(p) - 1) :
          IF i % 2 = 0 THEN p[i + 1] = 0 ELSE p[i + 1] = 1

StressDigits == {0, 1, 2}
Patterns == SeqsUpTo(StressDigits, MaxPatLen)

InitTemplate ==
    /\ pattern \in Patterns
    /\ template_ret = NotCalled

CallIsIambicPentameter ==
    /\ template_ret = NotCalled
    /\ template_ret' = PyBool(is_iambic_pentameter(pattern))
    /\ UNCHANGED pattern

InitT == InitTemplate /\ IdleRhyme /\ IdleNum /\ IdleCheck /\ IdleExt
NextT == CallIsIambicPentameter /\ UNCHANGED <<rhymeVars, numVars, checkVars, extVars>>
SpecTemplate == InitT /\ [][NextT]_vars

Iambic == <<0, 1, 0, 1, 0, 1, 0, 1, 0, 1>>

\* C4: the strict template accepts a stress sequence exactly when it is the
\* ten-entry sequence 0,1,0,1,0,1,0,1,0,1: a sequence of another length, one
\* with a 2 anywhere, and 1,1,0,1,0,1,0,1,0,1 are rejected.
StrictTemplate ==
    template_ret # NotCalled =>
        /\ template_ret \in {"True", "False"}
        /\ template_ret = "True" <=> pattern = Iambic
        /\ Len(pattern) # 10 => template_ret = "False"
        /\ (\E j \in 1..Len(pattern) : pattern[j] = 2) => template_ret = "False"
        /\ pattern = <<1, 1, 0, 1, 0, 1, 0, 1, 0, 1>> => template_ret = "False"

\* a ten-entry sequence that differs from the iambic one only by secondary
\* stresses at even indexes was rejected
StrictTemplateReached ==
    /\ template_ret = "False"
    /\ Len(pattern) = 10
    /\ \E j \in 1..10 : pattern[j] = 2
    /\ \A j \in 1..10 : pattern[j] = Iambic[j] \/ (j % 2 = 1 /\ pattern[j] = 2)

(***************************************************************************)
(* Number words (couplets.py:36-48).                                       *)
(***************************************************************************)
under_20 == <<<<"z", "e", "r", "o">>,
            <<"o", "n", "e">>,
            <<"t", "w", "o">>,
            <<"t", "h", "r", "e", "e">>,
            <<"f", "o", "u", "r">>,
            <<"f", "i", "v", "e">>,
            <<"s", "i", "x">>,
            <<"s", "e", "v", "e", "n">>,
            <<"e", "i", "g", "h", "t">>,
            <<"n", "i", "n", "e">>,
            <<"t", "e", "n">>,
            <<"e", "l", "e", "v", "e", "n">>,
            <<"t", "w", "e", "l", "v", "e">>,
            <<"t", "h", "i", "r", "t", "e", "e", "n">>,
            <<"f", "o", "u", "r", "t", "e", "e", "n">>,
            <<"f", "i", "f", "t", "e", "e", "n">>,
            <<"s", "i", "x", "t", "e", "e", "n">>,
            <<"s", "e", "v", "e", "n", "t", "e", "e", "n">>,
            <<"e", "i", "g", "h", "t", "e", "e", "n">>,
            <<"n", "i", "n", "e", "t", "e", "e", "n">>>>

tens == <<<<"t", "w", "e", "n", "t", "y">>,
        <<"t", "h", "i", "r", "t", "y">>,
        <<"f", "o", "r", "t", "y">>,
        <<"f", "i", "f", "t", "y">>,
        <<"s", "i", "x", "t", "y">>,
        <<"s", "e", "v", "e", "n", "t", "y">>,
        <<"e", "i", "g", "h", "t", "y">>,
        <<"n", "i", "n", "e", "t", "y">>>>

WordHundred == <<"h", "u", "n", "d", "r", "e", "d">>
WordThousand == <<"t", "h", "o", "u", "s", "a", "n", "d">>

\* above_100 = {100: 'hundred', 1000: 'thousand'}
above_100 == (100 :> WordHundred) @@ (1000 :> WordThousand)

Max(S) == CHOOSE m \in S : \A k \in S : k <= m

RECURSIVE num2words(_)
num2words(n) ==
    IF n < 20 THEN under_20[n + 1]
    ELSE IF n < 100
    THEN tens[(n \div 10) - 2 + 1] \o (IF n % 10 = 0 THEN <<>> ELSE <<" ">> \o under_20[(n % 10) + 1])
    ELSE LET pivot == Max({key \in DOMAIN above_100 : key <= n})
         IN  num2words(n \div pivot) \o <<" ">> \o above_100[pivot]
               \o (IF n % pivot = 0 THEN <<>> ELSE <<" ">> \o num2words(n % pivot))

RECURSIVE IntOf(_)
\* int(m.group()) of a run of decimal digits
IntOf(run) ==
    IF run = <<>> THEN 0
    ELSE 10 * IntOf(SubSeq(run, 1, Len(run) - 1)) + DigitValue(run[Len(run)])

NumDigits == {"0", "1", "2", "9"}
DigitRuns == SeqsUpTo(NumDigits, MaxDigits) \ {<<>>}

InitNum ==
    /\ num \in DigitRuns
    /\ num_ret = NotCalled

CallNum2Words ==
    /\ num_ret = NotCalled
    /\ num_ret' = num2words(IntOf(num))
    /\ UNCHANGED num

InitN == InitNum /\ IdleRhyme /\ IdleTemplate /\ IdleCheck /\ IdleExt
NextN == CallNum2Words /\ UNCHANGED <<rhymeVars, templateVars, checkVars, extVars>>
SpecNum == InitN /\ [][NextN]_vars

WordMillion == <<"m", "i", "l", "l", "i", "o", "n">>
WordBillion == <<"b", "i", "l", "l", "i", "o", "n">>

\* the pivots and pivot words the specification names
CardinalPivots ==
    (100 :> WordHundred) @@ (1000 :> WordThousand)
 @@ (1000000 :> WordMillion) @@ (1000000000 :> WordBillion)

RECURSIVE Cardinal(_)
\* the English cardinal words of n, as the specification words them
Cardinal(n) ==
    IF n < 20 THEN under_20[n + 1]
    ELSE IF n < 100
    THEN IF n % 10 = 0 THEN tens[(n \div 10) - 1]
         ELSE tens[(n \div 10) - 1] \o <<" ">> \o under_20[(n % 10) + 1]
    ELSE LET p == Max({q \in DOMAIN CardinalPivots : q <= n})
         IN  IF n % p = 0 THEN Cardinal(n \div p) \o <<" ">> \o CardinalPivots[p]
             ELSE Cardinal(n \div p) \o <<" ">> \o CardinalPivots[p] \o <<" ">> \o Cardinal(n % p)

\* C9: num2words(n) is the English cardinal of n, with p the largest of 100,
\* 1000, 1000000 and 1000000000 that is <= n; 123 gives "one hundred twenty
\* three", 1000 "one thousand", 20 "twenty" and 1000000 "one million".
Num2WordsCardinal ==
    num_ret # NotCalled => num_ret = Cardinal(IntOf(num))

(***************************************************************************)
(* Text normalisation (couplets.py:51-57).                                 *)
(***************************************************************************)
\* text[i:i+len(pat)] == pat, i counted from 1
MatchesAt(text, i, pat) ==
    /\ i + Len(pat) - 1 <= Len(text)
    /\ SubSeq(text, i, i + Len(pat) - 1) = pat

RECURSIVE Replace(_, _, _)
\* str.replace(pat, rep): the occurrences of pat left to right, not overlapping
Replace(text, pat, rep) ==
    IF text = <<>> THEN <<>>
    ELSE IF MatchesAt(text, 1, pat)
    THEN rep \o Replace(SubSeq(text, Len(pat) + 1, Len(text)), pat, rep)
    ELSE <<Head(text)>> \o Replace(Tail(text), pat, rep)

\* substitutions = {'&': ' and ', 'w/': 'with', 'w/o': 'without'}, in dict order
substitutions ==
    << <<<<"&">>, <<" ", "a", "n", "d", " ">>>>,
       <<<<"w", "/">>, <<"w", "i", "t", "h">>>>,
       <<<<"w", "/", "o">>, <<"w", "i", "t", "h", "o", "u", "t">>>> >>

RECURSIVE Substitute(_, _)
\* for k, v in substitutions.items(): text = text.replace(k, v)
Substitute(text, k) ==
    IF k > Len(substitutions) THEN text
    ELSE Substitute(Replace(text, substitutions[k][1], substitutions[k][2]), k + 1)

\* the length of the run of digits text starts with
DigitRunLen(text) ==
    Max({k \in 0..Len(text) : \A j \in 1..k : IsDigit(text[j])})

RECURSIVE NumeralsToWords(_)
\* re.sub(r'\d+', lambda m: num2words(int(m.group())), text)
NumeralsToWords(text) ==
    IF text = <<>> THEN <<>>
    ELSE LET k == DigitRunLen(text)
         IN  IF k > 0
             THEN num2words(IntOf(SubSeq(text, 1, k))) \o NumeralsToWords(SubSeq(text, k + 1, Len(text)))
             ELSE <<Head(text)>> \o NumeralsToWords(Tail(text))

\* re.sub(r'[^a-zA-Z\s\']', '', text)
StripSymbols(text) ==
    SelectSeq(text, LAMBDA c : c \in LowerLetters \cup UpperLetters \cup Whitespace \cup {"'"})

\* str.strip()
Strip(text) ==
    LET solid == {j \in 1..Len(text) : text[j] \notin Whitespace}
    IN  IF solid = {} THEN <<>>
        ELSE SubSeq(text, CHOOSE j \in solid : \A k \in solid : j <= k, Max(solid))

RECURSIVE CollapseWhitespace(_)
\* re.sub(r'\s+', ' ', text)
CollapseWhitespace(text) ==
    IF text = <<>> THEN <<>>
    ELSE IF Head(text) \in Whitespace
    THEN LET k == Max({n \in 1..Len(text) : \A j \in 1..n : text[j] \in Whitespace})
         IN  <<" ">> \o CollapseWhitespace(SubSeq(text, k + 1, Len(text)))
    ELSE <<Head(text)>> \o CollapseWhitespace(Tail(text))

normalize_text(text) ==
    CollapseWhitespace(Lower(Strip(StripSymbols(NumeralsToWords(Substitute(text, 1))))))

RECURSIVE SplitKnownWords(_)
\* a split that leaves out the words the lexicon does not know
SplitKnownWords(text) ==
    IF text = <<>> THEN <<>>
    ELSE IF Head(text) \in Whitespace THEN SplitKnownWords(Tail(text))
    ELSE LET k == Max({n \in 1..Len(text) : \A j \in 1..n : text[j] \notin Whitespace})
             rest == SplitKnownWords(SubSeq(text, k + 1, Len(text)))
         IN  IF SubSeq(text, 1, k) \in DOMAIN word_stress_patterns
             THEN <<SubSeq(text, 1, k)>> \o rest
             ELSE rest

RECURSIVE Split(_)
\* str.split(): the maximal runs of characters that are not whitespace
Split(text) ==
    IF text = <<>> THEN <<>>
    ELSE IF Head(text) \in Whitespace THEN Split(Tail(text))
    ELSE LET k == Max({n \in 1..Len(text) : \A j \in 1..n : text[j] \notin Whitespace})
         IN  <<SubSeq(text, 1, k)>> \o Split(SubSeq(text, k + 1, Len(text)))

(***************************************************************************)
(* check_iambic_pentameter (couplets.py:67-99), one step per iteration of  *)
(* its loop.  The lru_cache in front of it stores results of a function    *)
(* without effects and is left out.                                        *)
(***************************************************************************)
\* word_stress_patterns[word] of a defaultdict(list)
StressPatternsOf(word) ==
    IF word \in DOMAIN word_stress_patterns THEN word_stress_patterns[word] ELSE <<>>

\* couplets.py:77
UnexpectedWord(ws) ==
    ws = <<>> \/ \E j \in 1..Len(ws) : ws[j] \notin DOMAIN word_stress_patterns

\* test2.py:91-92, every word reduced to its first pronunciation
StressCombinationsFirstOnly(ws) ==
    [j \in 1..Len(ws) |-> <<StressPatternsOf(ws[j])[1]>>]

\* stress_combinations = [word_stress_patterns[word] for word in words]
StressCombinations(ws) == [j \in 1..Len(ws) |-> StressPatternsOf(ws[j])]

RECURSIVE ProductSize(_)
\* the number of tuples of itertools.product(*lists)
ProductSize(lists) ==
    IF lists = <<>> THEN 1 ELSE Len(Head(lists)) * ProductSize(Tail(lists))

\* the k-th tuple (k from 0) of itertools.product(*lists): the last list runs fastest
ProductTuple(lists, k) ==
    [j \in 1..Len(lists) |->
        lists[j][((k \div ProductSize(SubSeq(lists, j + 1, Len(lists)))) % Len(lists[j])) + 1]]

RECURSIVE Flatten(_)
\* [stress for stresses in combination for stress in stresses]
Flatten(combination) ==
    IF combination = <<>> THEN <<>> ELSE Head(combination) \o Flatten(Tail(combination))

RECURSIVE Join(_)
\* ' '.join(tokens)
Join(tokens) ==
    IF tokens = <<>> THEN <<>>
    ELSE IF Len(tokens) = 1 THEN tokens[1]
    ELSE tokens[1] \o <<" ">> \o Join(Tail(tokens))

LineWords == {Wd, We, Wx, Wy, Wz, Wq}
TextChars == {"d", "e", "D", " ", "\n", "$", "#", "@", "/", "w", "o", "&", "1"}
RawTexts == {Join(ts) : ts \in SeqsUpTo(LineWords, MaxWords)} \cup SeqsUpTo(TextChars, MaxChars)

InitCheck ==
    /\ raw_text \in RawTexts
    /\ pc = "call"
    /\ words = <<>>
    /\ patterns_checked = 0
    /\ found_iambic = FALSE
    /\ check_ret = NotCalled

\* couplets.py:69-86, up to the loop
CheckEnter ==
    /\ pc = "call"
    /\ IF \E j \in 1..Len(raw_text) : raw_text[j] = "\n"
       THEN /\ check_ret' = "False"
            /\ pc' = "done"
            /\ UNCHANGED words
       ELSE LET ws == Split(normalize_text(raw_text))
            IN  /\ words' = ws
                /\ IF UnexpectedWord(ws)
                   THEN check_ret' = "False" /\ pc' = "done"
                   ELSE check_ret' = check_ret /\ pc' = "loop"
    /\ UNCHANGED <<raw_text, patterns_checked, found_iambic>>

\* couplets.py:87-92, one iteration
CheckCombination ==
    /\ pc = "loop"
    /\ patterns_checked < ProductSize(StressCombinations(words))
    /\ LET combination == ProductTuple(StressCombinations(words), patterns_checked)
       IN  found_iambic' = (found_iambic \/ is_iambic_pentameter(Flatten(combination)))
    /\ patterns_checked' = patterns_checked + 1
    /\ UNCHANGED <<raw_text, pc, words, check_ret>>

\* couplets.py:95-99, after the loop
CheckReturn ==
    /\ pc = "loop"
    /\ patterns_checked = ProductSize(StressCombinations(words))
    /\ check_ret' = IF patterns_checked > 24 THEN "False" ELSE PyBool(found_iambic)
    /\ pc' = "done"
    /\ UNCHANGED <<raw_text, words, patterns_checked, found_iambic>>

InitC == InitCheck /\ IdleRhyme /\ IdleTemplate /\ IdleNum /\ IdleExt
NextC ==
    \/ CheckEnter /\ UNCHANGED <<rhymeVars, templateVars, numVars, extVars>>
    \/ CheckCombination /\ UNCHANGED <<rhymeVars, templateVars, numVars, extVars>>
    \/ CheckReturn /\ UNCHANGED <<rhymeVars, templateVars, numVars, extVars>>
SpecCheck == InitC /\ [][NextC]_vars

(***************************************************************************)
(* The classifier's contract as the specification words it.                *)
(***************************************************************************)
\* the positions at which a token of text starts
TokenStarts(text) ==
    {i \in 1..Len(text) : text[i] \notin Whitespace /\ (i = 1 \/ text[i - 1] \in Whitespace)}

\* the token of text that starts at position i
TokenAt(text, i) ==
    SubSeq(text, i, CHOOSE j \in i..Len(text) :
                        /\ \A k \in i..j : text[k] \notin Whitespace
                        /\ (j = Len(text) \/ text[j + 1] \in Whitespace))

\* the tokens of the normalised text, in order
Tokens(raw) ==
    LET text == normalize_text(raw)
        starts == TokenStarts(text)
    IN  [n \in 1..Cardinality(starts) |->
            TokenAt(text, CHOOSE i \in starts : Cardinality({h \in starts : h < i}) = n - 1)]

HasLineBreak(raw) == \E j \in 1..Len(raw) : raw[j] = "\n"
AllKnown(ts) == \A j \in 1..Len(ts) : ts[j] \in DOMAIN word_stress_patterns
Profile(w) == word_stress_patterns[w]
AmbiguousTokens(ts) == {j \in 1..Len(ts) : Len(Profile(ts[j])) > 1}

\* the choices of one variant per token
Choices(ts) ==
    {c \in [1..Len(ts) -> 1..Max({Len(Profile(w)) : w \in DOMAIN word_stress_patterns})] :
        \A j \in 1..Len(ts) : c[j] <= Len(Profile(ts[j]))}

\* the stress digits of the chosen variants, concatenated in token order
RECURSIVE ChosenStresses(_, _, _)
ChosenStresses(ts, c, j) ==
    IF j > Len(ts) THEN <<>> ELSE Profile(ts[j])[c[j]] \o ChosenStresses(ts, c, j + 1)

ShortestVariant(w) == CHOOSE n \in {Len(Profile(w)[v]) : v \in 1..Len(Profile(w))} :
                          \A v \in 1..Len(Profile(w)) : n <= Len(Profile(w)[v])
LongestVariant(w) == Max({Len(Profile(w)[v]) : v \in 1..Len(Profile(w))})

RECURSIVE min_syllables(_)
min_syllables(ts) == IF ts = <<>> THEN 0 ELSE ShortestVariant(Head(ts)) + min_syllables(Tail(ts))

RECURSIVE max_syllables(_)
max_syllables(ts) == IF ts = <<>> THEN 0 ELSE LongestVariant(Head(ts)) + max_syllables(Tail(ts))

PassesGuards(raw) ==
    LET ts == Tokens(raw)
    IN  /\ ~HasLineBreak(raw)
        /\ ts # <<>>
        /\ AllKnown(ts)
        /\ Cardinality(AmbiguousTokens(ts)) <= 3
        /\ min_syllables(ts) <= 10
        /\ max_syllables(ts) >= 10
        /\ Cardinality(Choices(ts)) <= 24

\* C3: a line with more than 3 tokens of more than one pronunciation variant
\* is rejected, whether or not a combination of variants satisfies the template.
AmbiguityGuard ==
    pc = "done" /\ AllKnown(Tokens(raw_text)) /\ Cardinality(AmbiguousTokens(Tokens(raw_text))) > 3
        => check_ret = "False"

\* C5: a line (a text without a line break) that passes the guards is accepted
\* exactly when some choice of one variant per token gives, concatenated in
\* token order, the template's stress sequence; the matching choice need not
\* be the tokens' first variants.
AcceptedIffSomeCombination ==
    pc = "done" /\ PassesGuards(raw_text) =>
        (check_ret = "True" <=>
            \E c \in Choices(Tokens(raw_text)) : ChosenStresses(Tokens(raw_text), c, 1) = Iambic)

\* a line was accepted whose only matching choices use a variant other than
\* the first of some token
NonFirstVariantAccepted ==
    /\ pc = "done"
    /\ check_ret = "True"
    /\ PassesGuards(raw_text)
    /\ \A c \in Choices(Tokens(raw_text)) :
           ChosenStresses(Tokens(raw_text), c, 1) = Iambic => \E j \in 1..Len(Tokens(raw_text)) : c[j] > 1

\* C6: the classifier evaluates at most 24 combinations of variants for a
\* line, and a line with more than 24 combinations is rejected.
SearchCapped ==
    /\ patterns_checked <= 24
    /\ pc = "done" /\ ~HasLineBreak(raw_text) /\ Tokens(raw_text) # <<>> /\ AllKnown(Tokens(raw_text))
         /\ Cardinality(Choices(Tokens(raw_text))) > 24
         => check_ret = "False"

\* C7: a line whose shortest variants sum to more than 10 syllables, or whose
\* longest variants sum to fewer than 10, is rejected before any combination
\* is evaluated.
LengthPruned ==
    pc = "done" /\ Tokens(raw_text) # <<>> /\ AllKnown(Tokens(raw_text))
        /\ (min_syllables(Tokens(raw_text)) > 10 \/ max_syllables(Tokens(raw_text)) < 10)
        => check_ret = "False" /\ patterns_checked = 0

\* C8: a text whose normalised token sequence is empty or holds a token that
\* is not in the lexicon is rejected: the classifier returns False.
UnknownWordRejected ==
    pc = "done" =>
        /\ check_ret \in {"True", "False"}
        /\ Tokens(raw_text) = <<>> \/ ~AllKnown(Tokens(raw_text)) => check_ret = "False"

\* a line was rejected whose tokens without the unknown one are an iambic line
UnknownWordReached ==
    /\ pc = "done"
    /\ check_ret = "False"
    /\ ~HasLineBreak(raw_text)
    /\ \E j \in 1..Len(Tokens(raw_text)) :
          /\ Tokens(raw_text)[j] \notin DOMAIN word_stress_patterns
          /\ LET rest == SubSeq(Tokens(raw_text), 1, j - 1) \o SubSeq(Tokens(raw_text), j + 1, Len(Tokens(raw_text)))
             IN  /\ rest # <<>>
                 /\ AllKnown(rest)
                 /\ \E c \in Choices(rest) : ChosenStresses(rest, c, 1) = Iambic

BannedSymbols == {"$", "#", "@", "/"}

\* C10: a raw text that contains '$', '#', '@', '/' or a line break is
\* rejected, whatever its words and stresses are.
BannedTextRejected ==
    pc = "done" /\ (\E j \in 1..Len(raw_text) : raw_text[j] \in BannedSymbols \cup {"\n"})
        => check_ret = "False"

(***************************************************************************)
(* Start-up of couplets.py: the module-level statements that build the     *)
(* lexicon, and the reads of it by the functions called afterwards.        *)
(***************************************************************************)
OverrideA == << <<AH0>> >>
OverridePerfect == << <<PhP, ER1, PhF, IH0, PhK, PhT>> >>

\* pronouncing_dict["a"] = ...; pronouncing_dict["perfect"] = ...
ApplyOverrides(d) ==
    [w \in DOMAIN d \cup {Wa, Wperfect} |->
        IF w = Wa THEN OverrideA ELSE IF w = Wperfect THEN OverridePerfect ELSE d[w]]

\* the loop of couplets.py:29-33 over a lexicon d
StressTableOf(d) ==
    [w \in DOMAIN d |-> [v \in 1..Len(d[w]) |-> StressesOf(d[w][v])]]

\* a lexicon d with the entries of "a" and "perfect" replaced (<<>>: no entry)
CorpusWith(d, a_entry, perfect_entry) ==
    [w \in (DOMAIN d \ {Wa, Wperfect})
           \cup (IF a_entry = <<>> THEN {} ELSE {Wa})
           \cup (IF perfect_entry = <<>> THEN {} ELSE {Wperfect}) |->
        IF w = Wa THEN a_entry ELSE IF w = Wperfect THEN perfect_entry ELSE d[w]]

Corpora ==
    {CorpusWith(CmuDict, a_entry, perfect_entry) :
        a_entry \in {<<>>, CmuDict[Wa], << <<EY1>> >>, OverrideA},
        perfect_entry \in {<<>>, CmuDict[Wperfect], OverridePerfect}}

LookupWords == {Wa, Wperfect, We, Wx, Wq}

InitBoot ==
    /\ corpus \in Corpora
    /\ module_dict = <<>>
    /\ stress_table = <<>>
    /\ boot_pc = "line22"
    /\ lookup = NotCalled

\* couplets.py:22, pronouncing_dict = cmudict.dict()
BootLoad ==
    /\ boot_pc = "line22"
    /\ module_dict' = corpus
    /\ boot_pc' = "line24"
    /\ UNCHANGED <<corpus, stress_table, lookup>>

\* couplets.py:24-25
BootOverride ==
    /\ boot_pc = "line24"
    /\ module_dict' = ApplyOverrides(module_dict)
    /\ boot_pc' = "line28"
    /\ UNCHANGED <<corpus, stress_table, lookup>>

\* couplets.py:28-33
BootStressPatterns ==
    /\ boot_pc = "line28"
    /\ stress_table' = StressTableOf(module_dict)
    /\ boot_pc' = "line111"
    /\ UNCHANGED <<corpus, module_dict, lookup>>

\* couplets.py:110-112, pronouncing_dict = cmudict.dict() a second time
BootReload ==
    /\ boot_pc = "line111"
    /\ module_dict' = corpus
    /\ boot_pc' = "ready"
    /\ UNCHANGED <<corpus, stress_table, lookup>>

\* couplets.py:77-81, check_iambic_pentameter reads word_stress_patterns
ReadStressPatterns(w) ==
    /\ boot_pc = "ready"
    /\ lookup' = <<"stress", w, IF w \in DOMAIN stress_table THEN stress_table[w] ELSE <<>> >>
    /\ UNCHANGED <<corpus, module_dict, stress_table, boot_pc>>

\* couplets.py:165-168, get_all_phoneme_endings reads pronouncing_dict
ReadPronunciations(w) ==
    /\ boot_pc = "ready"
    /\ lookup' = <<"rhyme", w, IF w \in DOMAIN module_dict THEN module_dict[w] ELSE <<>> >>
    /\ UNCHANGED <<corpus, module_dict, stress_table, boot_pc>>

InitB == InitBoot /\ IdleRhyme /\ IdleTemplate /\ IdleNum /\ IdleCheck /\ IdleAnapest /\ IdleFinder /\ IdleMonitor
NextB ==
    \/ BootLoad /\ UNCHANGED <<rhymeVars, templateVars, numVars, checkVars, anapestVars, finderVars, monitorVars>>
    \/ BootOverride /\ UNCHANGED <<rhymeVars, templateVars, numVars, checkVars, anapestVars, finderVars, monitorVars>>
    \/ BootStressPatterns /\ UNCHANGED <<rhymeVars, templateVars, numVars, checkVars, anapestVars, finderVars, monitorVars>>
    \/ BootReload /\ UNCHANGED <<rhymeVars, templateVars, numVars, checkVars, anapestVars, finderVars, monitorVars>>
    \/ \E w \in LookupWords : ReadStressPatterns(w) /\ UNCHANGED <<rhymeVars, templateVars, numVars, checkVars, anapestVars, finderVars, monitorVars>>
    \/ \E w \in LookupWords : ReadPronunciations(w) /\ UNCHANGED <<rhymeVars, templateVars, numVars, checkVars, anapestVars, finderVars, monitorVars>>
SpecBoot == InitB /\ [][NextB]_vars

\* with the stand-in corpus, start-up ends in the lexicon and the stress
\* table that the functions above read
BootGivesLexicon ==
    boot_pc = "ready" /\ corpus = CmuDict =>
        module_dict = pronouncing_dict /\ stress_table = word_stress_patterns

\* C11: after start-up both the stress patterns and the pronunciations that
\* the rhyme functions read hold the override entries of "a" and "perfect",
\* whatever the corpus holds for them.
OverridesInForce ==
    boot_pc = "ready" =>
        /\ Wa \in DOMAIN module_dict /\ Wperfect \in DOMAIN module_dict
        /\ module_dict[Wa] = OverrideA
        /\ module_dict[Wperfect] = OverridePerfect
        /\ stress_table[Wa] = << <<0>> >>
        /\ stress_table[Wperfect] = << <<1, 0>> >>
        /\ lookup # NotCalled /\ lookup[2] = Wa => lookup[3] \in {OverrideA, << <<0>> >>}

(***************************************************************************)
(* The anapestic-trimeter template (test_lim.py:70-93).                    *)
(***************************************************************************)
\* get_expected_stress(position)
get_expected_stress(position) == IF position % 3 = 0 THEN 2 ELSE 1

\* sum(actual != get_expected_stress(i) for i, actual in enumerate(pattern))
Mismatches(p) == Cardinality({i \in 0..(Len(p) - 1) : p[i + 1] # get_expected_stress(i)})

is_anapestic_trimeter(p) == Mismatches(p) <= 1

InitAnapest ==
    /\ ana_pattern \in Patterns
    /\ ana_ret = NotCalled

CallIsAnapesticTrimeter ==
    /\ ana_ret = NotCalled
    /\ ana_ret' = PyBool(is_anapestic_trimeter(ana_pattern))
    /\ UNCHANGED ana_pattern

InitA == InitAnapest /\ IdleRhyme /\ IdleTemplate /\ IdleNum /\ IdleCheck /\ IdleBoot /\ IdleFinder /\ IdleMonitor
NextA == CallIsAnapesticTrimeter /\ UNCHANGED <<rhymeVars, templateVars, numVars, checkVars, bootVars, finderVars, monitorVars>>
SpecAnapest == InitA /\ [][NextA]_vars

\* the ideal pattern of three feet, stressed at every third position
AnapestIdeal == <<2, 1, 1, 2, 1, 1, 2, 1, 1>>

\* C16: the anapestic-trimeter template accepts a stress sequence exactly
\* when it has the template's length and differs from the ideal pattern in
\* at most one position; the empty sequence and every sequence of another
\* length are rejected.
AnapestFixedLength ==
    ana_ret # NotCalled =>
        (ana_ret = "True" <=>
            /\ Len(ana_pattern) = Len(AnapestIdeal)
            /\ Cardinality({j \in 1..Len(AnapestIdeal) : ana_pattern[j] # AnapestIdeal[j]}) <= 1)

(***************************************************************************)
(* The substitution table as the specification words it.                   *)
(***************************************************************************)
Contains(text, pat) == \E i \in 1..Len(text) : MatchesAt(text, i, pat)
Without == <<"w", "i", "t", "h", "o", "u", "t">>
With == <<"w", "i", "t", "h">>
And == <<"a", "n", "d">>

\* C18: before tokenisation every '&' becomes ' and ', every 'w/' 'with' and
\* every 'w/o' 'without': a text with 'w/o' yields a token with 'without',
\* and a text with 'w/' or 'w/o' is normalised, not rejected beforehand.
SubstitutionsApplied ==
    pc = "done" /\ ~HasLineBreak(raw_text) =>
        /\ Contains(raw_text, <<"&">>) => \E j \in 1..Len(words) : words[j] = And
        /\ Contains(raw_text, <<"w", "/">>) => \E j \in 1..Len(words) : Contains(words[j], With)
        /\ Contains(raw_text, <<"w", "/", "o">>) => \E j \in 1..Len(words) : Contains(words[j], Without)

(***************************************************************************)
(* The couplet finder: couplets.py, IambicRhymeFinder and __main__.        *)
(* A row of iambic_messages is [post_text, created_at, reposted]; its id   *)
(* is its position in db.  Times are seconds.                              *)
(***************************************************************************)
Hour == 3600
DatetimeMin == -1
RepostPause == 2

\* check_iambic_pentameter as a function of its argument
check_iambic_pentameter(raw) ==
    IF \E j \in 1..Len(raw) : raw[j] = "\n" THEN "False"
    ELSE LET ws == Split(normalize_text(raw))
         IN  IF UnexpectedWord(ws) THEN "False"
             ELSE LET lists == StressCombinations(ws)
                      n == ProductSize(lists)
                  IN  IF n > 24 THEN "False"
                      ELSE PyBool(\E k \in 0..(n - 1) :
                                      is_iambic_pentameter(Flatten(ProductTuple(lists, k))))

\* get_last_word
get_last_word(text) ==
    LET ws == Split(StripSymbols(Lower(text)))
    IN  IF ws = <<>> THEN "None" ELSE ws[Len(ws)]

\* BlueskyPost.last_word of row id
last_word(id) == get_last_word(db[id].post_text)

\* the created_at of the later post of a couplet, with the earlier one as the mutation
EarliestTimestamp(c) ==
    IF db[c[1]].created_at <= db[c[2]].created_at THEN db[c[1]].created_at ELSE db[c[2]].created_at
most_recent_timestamp(c) ==
    IF db[c[1]].created_at >= db[c[2]].created_at THEN db[c[1]].created_at ELSE db[c[2]].created_at

\* RhymingCouplet.time_difference
time_difference(c) ==
    IF db[c[1]].created_at >= db[c[2]].created_at
    THEN db[c[1]].created_at - db[c[2]].created_at
    ELSE db[c[2]].created_at - db[c[1]].created_at

\* get_last_repost_timestamp
get_last_repost_timestamp ==
    LET done == {id \in DOMAIN db : db[id].reposted}
    IN  IF done = {} THEN DatetimeMin ELSE Max({db[id].created_at : id \in done})

\* the ids of the rows get_new_messages selects
get_new_messages(last_timestamp) ==
    {id \in DOMAIN db : db[id].created_at > last_timestamp /\ db[id].created_at < now - Hour}

\* the sequences without repetition over subsets of S: what fetch_valid_posts can
\* return for the posts S, the service choosing which posts survive and their order
ValidPostLists(S) ==
    {s \in SeqsUpTo(S, Cardinality(S)) : \A i, j \in 1..Len(s) : i # j => s[i] # s[j]}

RECURSIVE CoupletsFrom(_, _, _)
\* the nested loop of find_rhyming_couplets from the pair (i, j) on
CoupletsFrom(valid, i, j) ==
    IF i > Len(valid) THEN <<>>
    ELSE IF j > Len(valid) THEN CoupletsFrom(valid, i + 1, i + 2)
    ELSE IF last_word(valid[i]) = "None" THEN CoupletsFrom(valid, i + 1, i + 2)
    ELSE IF last_word(valid[j]) # "None" /\ Truthy(do_words_rhyme(last_word(valid[i]), last_word(valid[j])))
         THEN << <<valid[i], valid[j]>> >> \o CoupletsFrom(valid, i, j + 1)
         ELSE CoupletsFrom(valid, i, j + 1)

RECURSIVE PyMin(_)
\* min(cs, key=most_recent_timestamp) of a non-empty list: the first of the least
PyMin(cs) ==
    IF Len(cs) = 1 THEN cs[1]
    ELSE LET rest == PyMin(Tail(cs))
         IN  IF most_recent_timestamp(cs[1]) <= most_recent_timestamp(rest) THEN cs[1] ELSE rest

find_oldest_recent_couplet(cs) == IF cs = <<>> THEN "None" ELSE PyMin(cs)

\* sorted([first_post, second_post], key=created_at)
SortedPosts(c) ==
    IF db[c[1]].created_at <= db[c[2]].created_at THEN c ELSE <<c[2], c[1]>>

\* where control goes when repost_post fails on the k-th post: the exception is
\* logged and raised again, which ends repost_couplet; the mutation swallows it
OnRepostErrorSwallowed(k) == IF k = 1 THEN "sleep" ELSE "end"
OnRepostError(k) == "end"

Te == <<"d", " ", "e">>
Tf == <<"d", " ", "y", " ", "f">>
Tone == <<"d", " ", "y", " ", "a", " ", "1">>
Tq == <<"q", " ", "e">>
PostTexts == {Te, Tf, Tone, Tq}
AcceptedTexts == {t \in PostTexts : Truthy(check_iambic_pentameter(t))}
PostTimes == {0, 25 * Hour}
NowTimes == {25 * Hour, 27 * Hour}
Rows == [post_text : PostTexts, created_at : PostTimes, reposted : {FALSE}]
Tables == {t \in SeqsUpTo(Rows, MaxPosts) :
              \A i, j \in 1..Len(t) : i < j => t[i].created_at <= t[j].created_at}

InitFinder ==
    /\ db \in Tables
    /\ now \in NowTimes
    /\ reposts = [id \in DOMAIN db |-> 0]
    /\ fpc = "main"
    /\ runs = 1
    /\ valid_messages = <<>>
    /\ couplets = <<>>
    /\ chosen = "None"
    /\ rstep = 0
    /\ rlog = <<>>

\* couplets.py:431, find_rhyming_couplets
FindRhymingCouplets ==
    /\ fpc = "main"
    /\ LET messages == {id \in get_new_messages(get_last_repost_timestamp) :
                           db[id].post_text \in AcceptedTexts}
       IN  \E valid \in ValidPostLists(messages) :
               /\ valid_messages' = valid
               /\ couplets' = CoupletsFrom(valid, 1, 2)
    /\ fpc' = "found"
    /\ UNCHANGED <<db, now, reposts, runs, chosen, rstep, rlog>>

\* couplets.py:431 when a query of find_rhyming_couplets raises: the run ends
FindRaises ==
    /\ fpc = "main"
    /\ fpc' = "end"
    /\ UNCHANGED <<db, now, reposts, runs, valid_messages, couplets, chosen, rstep, rlog>>

\* couplets.py:442-443 and 278-279
PickCouplet ==
    /\ fpc = "found"
    /\ chosen' = find_oldest_recent_couplet(couplets)
    /\ IF couplets = <<>>
       THEN fpc' = "end" /\ rstep' = rstep
       ELSE fpc' = "get_posts" /\ rstep' = 1
    /\ UNCHANGED <<db, now, reposts, runs, valid_messages, couplets, rlog>>

\* the post repost_post is working on
CurrentPost == SortedPosts(chosen)[rstep]

\* couplets.py:265
RepostGetPosts ==
    /\ fpc = "get_posts"
    /\ fpc' = "repost"
    /\ UNCHANGED <<db, now, reposts, runs, valid_messages, couplets, chosen, rstep, rlog>>

\* couplets.py:267
RepostSubmit ==
    /\ fpc = "repost"
    /\ reposts' = [reposts EXCEPT ![CurrentPost] = @ + 1]
    /\ rlog' = Append(rlog, <<"repost", CurrentPost>>)
    /\ fpc' = "update"
    /\ UNCHANGED <<db, now, runs, valid_messages, couplets, chosen, rstep>>

\* couplets.py:269-270 and the return to repost_couplet or to __main__
RepostUpdate ==
    /\ fpc = "update"
    /\ db' = [db EXCEPT ![CurrentPost].reposted = TRUE]
    /\ rlog' = Append(rlog, <<"updated", CurrentPost>>)
    /\ fpc' = IF rstep = 1 THEN "sleep" ELSE "end"
    /\ UNCHANGED <<now, reposts, runs, valid_messages, couplets, chosen, rstep>>

\* couplets.py:271-273: one of the three calls of repost_post raises
RepostRaises ==
    /\ fpc \in {"get_posts", "repost", "update"}
    /\ rlog' = Append(rlog, <<"failed", CurrentPost>>)
    /\ fpc' = OnRepostError(rstep)
    /\ UNCHANGED <<db, now, reposts, runs, valid_messages, couplets, chosen, rstep>>

\* couplets.py:283
RepostSleep ==
    /\ fpc = "sleep"
    /\ rlog' = Append(rlog, <<"sleep", RepostPause>>)
    /\ rstep' = 2
    /\ fpc' = "get_posts"
    /\ UNCHANGED <<db, now, reposts, runs, valid_messages, couplets, chosen>>

\* the program is started again, at the same time or later
NextRun ==
    /\ fpc = "end"
    /\ runs < MaxRuns
    /\ runs' = runs + 1
    /\ now' \in {t \in NowTimes : t >= now}
    /\ fpc' = "main"
    /\ valid_messages' = <<>>
    /\ couplets' = <<>>
    /\ chosen' = "None"
    /\ rstep' = 0
    /\ rlog' = <<>>
    /\ UNCHANGED <<db, reposts>>

InitF == InitFinder /\ IdleRhyme /\ IdleTemplate /\ IdleNum /\ IdleCheck /\ IdleBoot /\ IdleAnapest /\ IdleMonitor
NextF ==
    \/ FindRhymingCouplets /\ UNCHANGED <<rhymeVars, templateVars, numVars, checkVars, bootVars, anapestVars, monitorVars>>
    \/ FindRaises /\ UNCHANGED <<rhymeVars, templateVars, numVars, checkVars, bootVars, anapestVars, monitorVars>>
    \/ PickCouplet /\ UNCHANGED <<rhymeVars, templateVars, numVars, checkVars, bootVars, anapestVars, monitorVars>>
    \/ RepostGetPosts /\ UNCHANGED <<rhymeVars, templateVars, numVars, checkVars, bootVars, anapestVars, monitorVars>>
    \/ RepostSubmit /\ UNCHANGED <<rhymeVars, templateVars, numVars, checkVars, bootVars, anapestVars, monitorVars>>
    \/ RepostUpdate /\ UNCHANGED <<rhymeVars, templateVars, numVars, checkVars, bootVars, anapestVars, monitorVars>>
    \/ RepostRaises /\ UNCHANGED <<rhymeVars, templateVars, numVars, checkVars, bootVars, anapestVars, monitorVars>>
    \/ RepostSleep /\ UNCHANGED <<rhymeVars, templateVars, numVars, checkVars, bootVars, anapestVars, monitorVars>>
    \/ NextRun /\ UNCHANGED <<rhymeVars, templateVars, numVars, checkVars, bootVars, anapestVars, monitorVars>>
SpecFinder == InitF /\ [][NextF]_vars

\* the classifier process and the function form agree (checked on SpecCheck)
CheckAgrees == pc = "done" => check_ret = check_iambic_pentameter(raw_text)
\* the accepted stand-in texts
AcceptedAsExpected == AcceptedTexts = {Te, Tf, Tone}

(***************************************************************************)
(* The couplet finder's contract as the specification words it.            *)
(***************************************************************************)
Window == 24 * Hour
Min(S) == CHOOSE m \in S : \A k \in S : m <= k
EarlierTimestamp(c) == Min({db[c[1]].created_at, db[c[2]].created_at})
LaterTimestamp(c) == Max({db[c[1]].created_at, db[c[2]].created_at})

\* C12: every couplet the finder emits pairs two lines whose timestamps differ
\* by at most the window of 86400 seconds
PairedWithinWindow ==
    \A k \in 1..Len(couplets) :
        LaterTimestamp(couplets[k]) - EarlierTimestamp(couplets[k]) <= Window

\* C13: the couplets the finder returns are in ascending order of the earlier
\* of their two timestamps, whatever order the validation step returned the lines in
CoupletsAscending ==
    \A k \in 1..(Len(couplets) - 1) :
        EarlierTimestamp(couplets[k]) <= EarlierTimestamp(couplets[k + 1])

\* C14: once the pick is made, on an empty list nothing is chosen, and otherwise
\* the chosen couplet is one of the list whose later timestamp is at most the
\* later timestamp of every couplet of the list
OldestRecentChosen ==
    fpc \notin {"idle", "main", "found"} =>
        IF couplets = <<>>
        THEN chosen = "None"
        ELSE /\ \E k \in 1..Len(couplets) : chosen = couplets[k]
             /\ \A k \in 1..Len(couplets) : LaterTimestamp(chosen) <= LaterTimestamp(couplets[k])

\* the pick is made among several couplets and is not the first of the list
ChosenNotFirst ==
    /\ fpc = "get_posts"
    /\ Len(couplets) >= 2
    /\ chosen # couplets[1]
    /\ LaterTimestamp(chosen) < LaterTimestamp(couplets[1])

\* C15: in a run, a post is submitted either first of all, or fourth after the
\* submission of the other post of the couplet, the recording of that post's
\* repost and the pause, in this order and with no failure; the post submitted
\* first is not the later of the two
PublishedInOrder ==
    \A k \in 1..Len(rlog) :
        rlog[k][1] = "repost" =>
            \/ /\ k = 1
               /\ db[rlog[1][2]].created_at = EarlierTimestamp(chosen)
            \/ /\ k = 4
               /\ rlog[1] = <<"repost", rlog[1][2]>>
               /\ rlog[2] = <<"updated", rlog[1][2]>>
               /\ rlog[3] = <<"sleep", RepostPause>>
               /\ rlog[4][2] # rlog[1][2]
               /\ {rlog[1][2], rlog[4][2]} = {chosen[1], chosen[2]}
               /\ db[rlog[4][2]].created_at = LaterTimestamp(chosen)

\* both posts of a couplet whose timestamps differ have been submitted
BothSubmitted ==
    /\ Len(rlog) >= 4
    /\ rlog[4][1] = "repost"
    /\ EarlierTimestamp(chosen) < LaterTimestamp(chosen)

\* C19: the last word used to pair a line the finder kept is the last token of
\* the normalised token sequence the classifier scanned
LastWordIsLastToken ==
    \A i \in 1..Len(valid_messages) :
        LET ts == Tokens(db[valid_messages[i]].post_text)
        IN  ts # <<>> /\ last_word(valid_messages[i]) = ts[Len(ts)]

\* C20: over all runs, no row is submitted for repost more than once
NoDoubleRepost == \A id \in DOMAIN reposts : reposts[id] <= 1

(***************************************************************************)
(* The stream consumer: test2.py, IambicMonitor.monitor_firehose and       *)
(* process_message.                                                        *)
(***************************************************************************)
ReconnectDelay == 5

\* the seconds slept after the n-th failure, with a growing wait as the mutation
RetryDelayGrowing(n) == ReconnectDelay * n
RetryDelay(n) == ReconnectDelay

\* where control is after process_message logged an exception of its body
AfterProcessError == "recv"

\* what a received message is to process_message: a post the classifier accepts,
\* a post it rejects, a message that is not the creation of a post, and a
\* message on which the body of process_message raises
MessageKinds == {"iambic", "not_iambic", "not_a_post", "raises"}

InitMonitor ==
    /\ mpc = "connect"
    /\ delays = <<>>
    /\ received = 0
    /\ process_errors = 0
    /\ stored = 0
    /\ last_event = "none"

\* test2.py:195-196
MonitorConnect ==
    /\ mpc = "connect"
    /\ mpc' = "recv"
    /\ last_event' = "connected"
    /\ UNCHANGED <<delays, received, process_errors, stored>>

\* test2.py:195 raises, then 202-203
MonitorConnectFails ==
    /\ mpc = "connect"
    /\ Len(delays) < MaxFailures
    /\ mpc' = "sleep"
    /\ last_event' = "transport_failure"
    /\ UNCHANGED <<delays, received, process_errors, stored>>

\* test2.py:199 raises, then 202-203
MonitorRecvFails ==
    /\ mpc = "recv"
    /\ Len(delays) < MaxFailures
    /\ mpc' = "sleep"
    /\ last_event' = "transport_failure"
    /\ UNCHANGED <<delays, received, process_errors, stored>>

\* test2.py:199-200 when json.loads raises, then 202-203
MonitorBadFrame ==
    /\ mpc = "recv"
    /\ Len(delays) < MaxFailures
    /\ received < MaxMessages
    /\ received' = received + 1
    /\ mpc' = "sleep"
    /\ last_event' = "bad_frame"
    /\ UNCHANGED <<delays, process_errors, stored>>

\* test2.py:199-200 with process_message (171-189) and insert_iambic_post (155-169)
MonitorProcessMessage ==
    /\ mpc = "recv"
    /\ received < MaxMessages
    /\ received' = received + 1
    /\ \E kind \in MessageKinds :
          \/ /\ kind \in {"not_iambic", "not_a_post"}
             /\ mpc' = "recv"
             /\ last_event' = "processed"
             /\ UNCHANGED <<process_errors, stored>>
          \/ /\ kind = "iambic"
             /\ mpc' = "recv"
             /\ \/ stored' = stored + 1 /\ last_event' = "processed"
                \/ stored' = stored /\ last_event' = "processed"
                \/ stored' = stored /\ last_event' = "insert_error"
             /\ UNCHANGED process_errors
          \/ /\ kind = "raises"
             /\ process_errors' = process_errors + 1
             /\ mpc' = AfterProcessError
             /\ last_event' = "process_error"
             /\ UNCHANGED stored
    /\ UNCHANGED delays

\* test2.py:204-205, then 193
MonitorSleep ==
    /\ mpc = "sleep"
    /\ delays' = Append(delays, RetryDelay(Len(delays) + 1))
    /\ mpc' = "connect"
    /\ last_event' = "slept"
    /\ UNCHANGED <<received, process_errors, stored>>

InitM == InitMonitor /\ IdleRhyme /\ IdleTemplate /\ IdleNum /\ IdleCheck /\ IdleBoot /\ IdleAnapest /\ IdleFinder
NextM ==
    \/ MonitorConnect /\ UNCHANGED <<rhymeVars, templateVars, numVars, checkVars, bootVars, anapestVars, finderVars>>
    \/ MonitorConnectFails /\ UNCHANGED <<rhymeVars, templateVars, numVars, checkVars, bootVars, anapestVars, finderVars>>
    \/ MonitorRecvFails /\ UNCHANGED <<rhymeVars, templateVars, numVars, checkVars, bootVars, anapestVars, finderVars>>
    \/ MonitorBadFrame /\ UNCHANGED <<rhymeVars, templateVars, numVars, checkVars, bootVars, anapestVars, finderVars>>
    \/ MonitorProcessMessage /\ UNCHANGED <<rhymeVars, templateVars, numVars, checkVars, bootVars, anapestVars, finderVars>>
    \/ MonitorSleep /\ UNCHANGED <<rhymeVars, templateVars, numVars, checkVars, bootVars, anapestVars, finderVars>>
SpecMonitor == InitM /\ [][NextM]_vars

\* C17: the consumer is always connecting, receiving or waiting to reconnect;
\* after a transport failure it is waiting, every wait made is the same fixed
\* delay and is followed by a new connection attempt, however many failures
\* came before; and after process_message logged an exception of its body the
\* consumer is still in the receive loop, ready for the next message
ConsumerKeepsGoing ==
    /\ mpc \in {"connect", "recv", "sleep"}
    /\ last_event \in {"transport_failure", "bad_frame"} => mpc = "sleep"
    /\ \A k \in 1..Len(delays) : delays[k] = ReconnectDelay
    /\ last_event = "slept" => mpc = "connect" /\ delays # <<>>
    /\ last_event \in {"process_error", "insert_error"} => mpc = "recv"
    /\ mpc = "recv" => last_event \in {"connected", "processed", "process_error", "insert_error"}

\* after consecutive failures and an exception in process_message, the next
\* message has been processed
ConsumerRecovered ==
    /\ Len(delays) >= 2
    /\ process_errors >= 1
    /\ last_event = "processed"
    /\ mpc = "recv"

====
